---- MODULE Spec2Model ----
(***************************************************************************)
(* State-machine model of OpenClawMemory (supaclaw): the memory store,     *)
(* the embedding provider selection and the recall / hybridRecall /        *)
(* forget / getContext operations.  Texts are sequences of one-character   *)
(* strings; importances, similarities and weights are integers             *)
(* (importance in tenths, similarity in hundredths, weights in tenths).    *)
(***************************************************************************)
EXTENDS Integers, Sequences, FiniteSets, TLC

VARIABLES config, openai, memories, messages, nextId, nextMsgId, last,
          forgotten, inflight

vars == <<config, openai, memories, messages, nextId, nextMsgId, last,
          forgotten, inflight>>

\* ------------------------------------------------------------------ bounds
MaxMemories == 2        \* rows ever inserted into the memories table
MaxMessages == 2        \* rows ever inserted into the messages table

\* ------------------------------------------------------- program constants
DefaultRecallLimit == 10
DefaultMinSimilarity == 70
DefaultVectorWeight == 7
DefaultKeywordWeight == 3
DefaultImportance == 5
DefaultGetMemoriesLimit == 50
DefaultSimilarThreshold == 80
DefaultSimilarLimit == 5
DefaultMaxMemories == 5
DefaultMaxMessages == 20
DefaultMessagesLimit == 100

\* ------------------------------------------------------------- input sets
Null == "null"
Instances == {"X", "Y"}
Readers == {"X"}
\* callers that share the instance of agent X
Callers == {"a", "b"}
Sessions == {"s1", "s2"}

ProviderConfigs ==
  { [embeddingProvider |-> "undefined", openaiApiKey |-> "undefined"],
    [embeddingProvider |-> "none",      openaiApiKey |-> "undefined"],
    [embeddingProvider |-> "openai",    openaiApiKey |-> "undefined"],
    [embeddingProvider |-> "openai",    openaiApiKey |-> "sk"],
    [embeddingProvider |-> "voyage",    openaiApiKey |-> "undefined"] }

\* what callers pass to remember()
MemoryInputs(self) ==
  IF self = "X"
  THEN { [content |-> <<"T", "s">>, category |-> "c1", importance |-> 9,
          userId |-> "u1"],
         [content |-> <<"t", "s", "c">>, expiresAt |-> "past"] }
  ELSE { [content |-> <<"t", "s">>, importance |-> 9] }

\* the last query holds the one-character wildcard of ILIKE
Queries == { <<"t", "s">>, <<"c">>, <<"s", "_">> }

NoOpts == [x \in {} |-> 0]

\* options accepted by both recall and hybridRecall
SharedOpts ==
  { NoOpts,
    [limit |-> 0],
    [limit |-> 1],
    [userId |-> "u2"],
    [category |-> "c1", minImportance |-> 6] }

RecallOpts == SharedOpts \cup { [minSimilarity |-> 90], [userId |-> "u1"] }

HybridOpts == SharedOpts \cup { [vectorWeight |-> 3, keywordWeight |-> 7] }

\* what the collaborators do during one call: both answer, the OpenAI
\* request fails, the store request fails, or (getContext only) the
\* messages request fails
Envs == {"ok", "providerFails", "storeFails"}
ContextEnvs == Envs \cup {"messagesFail"}

\* ---------------------------------------------------------------- helpers
Has(opts, k) == k \in DOMAIN opts

\* JavaScript `opts.k || d` on a number: undefined and 0 both give d
OrDefault(opts, k, d) == IF Has(opts, k) /\ opts[k] # 0 THEN opts[k] ELSE d

\* JavaScript `opts.k ?? d`: only undefined gives d
Nullish(opts, k, d) == IF Has(opts, k) THEN opts[k] ELSE d

\* an optional string column: undefined is stored as SQL NULL
Column(opts, k) == IF Has(opts, k) THEN opts[k] ELSE Null

Min(a, b) == IF a < b THEN a ELSE b

Take(seq, n) == SubSeq(seq, 1, Min(n, Len(seq)))

Ids(seq) == { seq[i].id : i \in 1..Len(seq) }

\* rows of S ordered by Key descending (keys are distinct within S)
OrderDesc(S, key) ==
  [i \in 1..Cardinality(S) |->
     CHOOSE r \in S : Cardinality({x \in S : key[x] > key[r]}) = i - 1]

Lower(c) == IF c = "T" THEN "t" ELSE IF c = "C" THEN "c" ELSE c

\* SQL ILIKE: % matches any run of characters, _ any one character
RECURSIVE Like(_, _)
Like(s, p) ==
  IF p = <<>> THEN s = <<>>
  ELSE IF Head(p) = "%"
       THEN Like(s, Tail(p)) \/ (s # <<>> /\ Like(Tail(s), p))
       ELSE /\ s # <<>>
            /\ (Head(p) = "_" \/ Lower(Head(s)) = Lower(Head(p)))
            /\ Like(Tail(s), Tail(p))

ILike(content, query) == Like(content, <<"%">> \o query \o <<"%">>)

\* ----------------------------------------------------- embedding provider
HasChar(text, c) == \E i \in 1..Len(text) : Lower(text[i]) = c

\* the provider's vector for a text (one of four directions)
Embed(text) ==
  IF HasChar(text, "t") /\ HasChar(text, "c") THEN "vMixed"
  ELSE IF HasChar(text, "t") THEN "vLang"
  ELSE IF HasChar(text, "c") THEN "vDrink"
  ELSE "vOther"

\* cosine similarity of two vectors, in hundredths
CosineSim(v, w) ==
  IF v = w THEN 100
  ELSE IF {v, w} = {"vLang", "vMixed"} THEN 85
  ELSE IF {v, w} = {"vDrink", "vMixed"} THEN 75
  ELSE IF {v, w} = {"vLang", "vDrink"} THEN 30
  ELSE 10

EmbNull == [kind |-> "null", vector |-> Null, error |-> Null]
EmbThrow(e) == [kind |-> "throw", vector |-> Null, error |-> e]
EmbVector(v) == [kind |-> "vector", vector |-> v, error |-> Null]

\* generateEmbedding catching every provider failure and answering null
GenerateEmbeddingSwallows(self, text, env) ==
  IF config[self].embeddingProvider = "openai" /\ openai[self]
     /\ env # "providerFails"
  THEN EmbVector(Embed(text))
  ELSE EmbNull

\* generateEmbedding; env says whether the OpenAI request succeeds
GenerateEmbedding(self, text, env) ==
  IF config[self].embeddingProvider \in {"undefined", "none"} THEN EmbNull
  ELSE IF config[self].embeddingProvider = "openai"
       THEN IF ~openai[self] THEN EmbThrow("OpenAI API key not provided")
            ELSE IF env # "providerFails" THEN EmbVector(Embed(text))
                 ELSE EmbThrow("OpenAI request failed")
  ELSE IF config[self].embeddingProvider = "voyage"
       THEN EmbThrow("Voyage AI embeddings not yet implemented")
  ELSE EmbNull

ProviderErrors == { "OpenAI API key not provided", "OpenAI request failed",
                    "Voyage AI embeddings not yet implemented" }

\* ------------------------------------------------------------ the store
\* importance is at most 10 and created_at at most MaxMemories
RankBase == 11 + MaxMemories

\* the user filter as a plain equality, which hides agent-global rows
UserVisibleStrict(r, opts) ==
  (Has(opts, "userId") /\ opts.userId # "") => r.user_id = opts.userId

\* the user filter of recall: the row's user, or an agent-global row
UserVisible(r, opts) ==
  (Has(opts, "userId") /\ opts.userId # "")
     => (r.user_id = opts.userId \/ r.user_id = Null)

CategoryMatches(r, opts) ==
  (Has(opts, "category") /\ opts.category # "") => r.category = opts.category

KeywordKey(r) == r.importance * RankBase + r.created_at

\* the keyword query with a filter that leaves expired rows out
KeywordSearchSkipsExpired(self, query, opts) ==
  LET rows == { r \in memories :
                  /\ r.agent_id = config[self].agentId
                  /\ UserVisible(r, opts)
                  /\ CategoryMatches(r, opts)
                  /\ (Has(opts, "minImportance") /\ opts.minImportance # 0)
                        => r.importance >= opts.minImportance
                  /\ ILike(r.content, query)
                  /\ r.expires_at # "past" }
  IN Take(OrderDesc(rows, [r \in rows |-> KeywordKey(r)]),
          OrDefault(opts, "limit", DefaultRecallLimit))

\* the keyword query of recall: select ... order ... limit, then the filters
KeywordSearch(self, query, opts) ==
  LET rows == { r \in memories :
                  /\ r.agent_id = config[self].agentId
                  /\ UserVisible(r, opts)
                  /\ CategoryMatches(r, opts)
                  /\ (Has(opts, "minImportance") /\ opts.minImportance # 0)
                        => r.importance >= opts.minImportance
                  /\ ILike(r.content, query) }
  IN Take(OrderDesc(rows, [r \in rows |-> KeywordKey(r)]),
          OrDefault(opts, "limit", DefaultRecallLimit))

\* filters shared by the two search procedures of the store
RpcFilter(r, p_agent_id, p_user_id, p_category, p_min_importance) ==
  /\ r.agent_id = p_agent_id
  /\ p_user_id # Null => (r.user_id = p_user_id \/ r.user_id = Null)
  /\ p_category # Null => r.category = p_category
  /\ \A m \in p_min_importance : r.importance >= m

\* stored procedure match_memories
MatchMemories(query_embedding, match_threshold, match_count, p_agent_id, p_user_id, p_category, p_min_importance) ==
  LET Sim(r) == CosineSim(r.embedding, query_embedding)
      Key(r) == Sim(r) * RankBase * RankBase + KeywordKey(r)
      rows == { r \in memories :
                  /\ RpcFilter(r, p_agent_id, p_user_id, p_category,
                               p_min_importance)
                  /\ r.embedding # Null
                  /\ Sim(r) >= match_threshold }
  IN Take(OrderDesc(rows, [r \in rows |-> Key(r)]), match_count)

VectorScore(r, query_embedding) ==
  IF r.embedding = Null THEN 0 ELSE CosineSim(r.embedding, query_embedding)

KeywordScore(r, query_text) == IF ILike(r.content, query_text) THEN 100 ELSE 0

\* the weighted sum of the two sub-scores, in thousandths
Fuse(vector_score, keyword_score, vector_weight, keyword_weight) ==
  vector_weight * vector_score + keyword_weight * keyword_score

FusedScore(r, query_embedding, query_text, vector_weight, keyword_weight) ==
  Fuse(VectorScore(r, query_embedding), KeywordScore(r, query_text),
       vector_weight, keyword_weight)

\* stored procedure hybrid_search_memories
HybridSearchMemories(query_embedding, query_text, vector_weight, keyword_weight, match_count, p_agent_id, p_user_id, p_category, p_min_importance) ==
  LET Key(r) == FusedScore(r, query_embedding, query_text, vector_weight,
                           keyword_weight) * RankBase * RankBase
                  + KeywordKey(r)
      rows == { r \in memories :
                  /\ RpcFilter(r, p_agent_id, p_user_id, p_category,
                               p_min_importance)
                  /\ (r.embedding # Null \/ ILike(r.content, query_text)) }
  IN Take(OrderDesc(rows, [r \in rows |-> Key(r)]), match_count)

\* stored procedure find_similar_memories: the rows it returns, and whether
\* the referenced memory has a stored embedding at all
SimilarSource(memory_id) ==
  { r \in memories : r.id = memory_id /\ r.embedding # Null }

FindSimilarRows(memory_id, match_threshold, match_count) ==
  LET src == CHOOSE r \in SimilarSource(memory_id) : TRUE
      Sim(r) == CosineSim(r.embedding, src.embedding)
      Key(r) == Sim(r) * RankBase * RankBase + KeywordKey(r)
      rows == { r \in memories :
                  /\ r.agent_id = src.agent_id
                  /\ r.id # memory_id
                  /\ r.embedding # Null
                  /\ Sim(r) >= match_threshold }
  IN Take(OrderDesc(rows, [r \in rows |-> Key(r)]), match_count)

\* ---------------------------------------------------------- call outcomes
Ok(rows, qs) ==
  [status |-> "ok", error |-> Null, result |-> rows, queries |-> qs]
Throw(e, qs) ==
  [status |-> "error", error |-> e, result |-> <<>>, queries |-> qs]

Call(op, self, query, opts, env, out) ==
  [op |-> op, self |-> self, query |-> query, opts |-> opts, env |-> env,
   status |-> out.status, error |-> out.error, result |-> out.result,
   queries |-> out.queries, recentMessages |-> <<>>, summary |-> <<>>,
   repeat |-> FALSE, calls |-> <<>>]

\* a provider request is made, so it can fail
CallsProvider(self) ==
  config[self].embeddingProvider = "openai" /\ openai[self]

EnvPossible(self, env) == env = "providerFails" => CallsProvider(self)

MinImportanceParam(opts) ==
  IF Has(opts, "minImportance") THEN {opts.minImportance} ELSE {}

\* recall running the keyword query as well when the vector query is empty
RecallRetriesByKeyword(self, query, opts, env) ==
  LET queryEmbedding == GenerateEmbedding(self, query, env)
      matched == MatchMemories(queryEmbedding.vector,
                               Nullish(opts, "minSimilarity",
                                       DefaultMinSimilarity),
                               OrDefault(opts, "limit", DefaultRecallLimit),
                               config[self].agentId, Column(opts, "userId"),
                               Column(opts, "category"),
                               MinImportanceParam(opts))
  IN IF queryEmbedding.kind = "throw"
     THEN Throw(queryEmbedding.error, <<>>)
     ELSE IF env = "storeFails"
     THEN Throw("RetrievalFailure",
                IF queryEmbedding.kind = "vector"
                THEN <<"match_memories">> ELSE <<"memories.select">>)
     ELSE IF queryEmbedding.kind = "vector" /\ matched # <<>>
     THEN Ok(matched, <<"match_memories">>)
     ELSE Ok(KeywordSearch(self, query, opts),
             IF queryEmbedding.kind = "vector"
             THEN <<"match_memories", "memories.select">>
             ELSE <<"memories.select">>)

\* recall asking the store for every embedded row, whatever its similarity
RecallIgnoresThreshold(self, query, opts, env) ==
  LET queryEmbedding == GenerateEmbedding(self, query, env)
  IN IF queryEmbedding.kind = "throw"
     THEN Throw(queryEmbedding.error, <<>>)
     ELSE IF queryEmbedding.kind = "vector"
     THEN IF env = "storeFails"
          THEN Throw("RetrievalFailure", <<"match_memories">>)
          ELSE Ok(MatchMemories(queryEmbedding.vector, 0,
                                OrDefault(opts, "limit", DefaultRecallLimit),
                                config[self].agentId,
                                Column(opts, "userId"),
                                Column(opts, "category"),
                                MinImportanceParam(opts)),
                  <<"match_memories">>)
     ELSE IF env = "storeFails"
          THEN Throw("RetrievalFailure", <<"memories.select">>)
          ELSE Ok(KeywordSearch(self, query, opts), <<"memories.select">>)

\* recall answering a failed store request with no rows
RecallSwallowsStoreError(self, query, opts, env) ==
  LET queryEmbedding == GenerateEmbedding(self, query, env)
  IN IF queryEmbedding.kind = "throw"
     THEN Throw(queryEmbedding.error, <<>>)
     ELSE IF queryEmbedding.kind = "vector"
     THEN IF env = "storeFails"
          THEN Ok(<<>>, <<"match_memories">>)
          ELSE Ok(MatchMemories(queryEmbedding.vector,
                                Nullish(opts, "minSimilarity",
                                        DefaultMinSimilarity),
                                OrDefault(opts, "limit", DefaultRecallLimit),
                                config[self].agentId,
                                Column(opts, "userId"),
                                Column(opts, "category"),
                                MinImportanceParam(opts)),
                  <<"match_memories">>)
     ELSE IF env = "storeFails"
          THEN Ok(<<>>, <<"memories.select">>)
          ELSE Ok(KeywordSearch(self, query, opts), <<"memories.select">>)

\* recall(query, opts)
Recall(self, query, opts, env) ==
  LET queryEmbedding == GenerateEmbedding(self, query, env)
  IN IF queryEmbedding.kind = "throw"
     THEN Throw(queryEmbedding.error, <<>>)
     ELSE IF queryEmbedding.kind = "vector"
     THEN IF env = "storeFails"
          THEN Throw("RetrievalFailure", <<"match_memories">>)
          ELSE Ok(MatchMemories(queryEmbedding.vector,
                                Nullish(opts, "minSimilarity",
                                        DefaultMinSimilarity),
                                OrDefault(opts, "limit", DefaultRecallLimit),
                                config[self].agentId,
                                Column(opts, "userId"),
                                Column(opts, "category"),
                                MinImportanceParam(opts)),
                  <<"match_memories">>)
     ELSE IF env = "storeFails"
          THEN Throw("RetrievalFailure", <<"memories.select">>)
          ELSE Ok(KeywordSearch(self, query, opts), <<"memories.select">>)

\* hybridRecall whose fallback calls recall(query) without the options
HybridRecallDropsOpts(self, query, opts, env) ==
  LET queryEmbedding == GenerateEmbedding(self, query, env)
  IN IF queryEmbedding.kind = "throw"
     THEN Throw(queryEmbedding.error, <<>>)
     ELSE IF queryEmbedding.kind = "vector"
     THEN IF env = "storeFails"
          THEN Throw("RetrievalFailure", <<"hybrid_search_memories">>)
          ELSE Ok(HybridSearchMemories(queryEmbedding.vector, query,
                                       Nullish(opts, "vectorWeight",
                                               DefaultVectorWeight),
                                       Nullish(opts, "keywordWeight",
                                               DefaultKeywordWeight),
                                       OrDefault(opts, "limit",
                                                 DefaultRecallLimit),
                                       config[self].agentId,
                                       Column(opts, "userId"),
                                       Column(opts, "category"),
                                       MinImportanceParam(opts)),
                  <<"hybrid_search_memories">>)
     ELSE Recall(self, query, NoOpts, env)

\* hybridRecall asking for the default number of rows whatever opts.limit is
HybridRecallIgnoresLimit(self, query, opts, env) ==
  LET vectorWeight == Nullish(opts, "vectorWeight", DefaultVectorWeight)
      keywordWeight == Nullish(opts, "keywordWeight", DefaultKeywordWeight)
      queryEmbedding == GenerateEmbedding(self, query, env)
  IN IF queryEmbedding.kind = "throw"
     THEN Throw(queryEmbedding.error, <<>>)
     ELSE IF queryEmbedding.kind = "vector"
     THEN IF env = "storeFails"
          THEN Throw("RetrievalFailure", <<"hybrid_search_memories">>)
          ELSE Ok(HybridSearchMemories(queryEmbedding.vector, query,
                                       vectorWeight, keywordWeight,
                                       DefaultRecallLimit,
                                       config[self].agentId,
                                       Column(opts, "userId"),
                                       Column(opts, "category"),
                                       MinImportanceParam(opts)),
                  <<"hybrid_search_memories">>)
     ELSE Recall(self, query, opts, env)

\* hybridRecall running the vector and the keyword search itself and
\* appending one result to the other
HybridRecallConcatenates(self, query, opts, env) ==
  LET queryEmbedding == GenerateEmbedding(self, query, env)
      limit == OrDefault(opts, "limit", DefaultRecallLimit)
  IN IF queryEmbedding.kind = "throw"
     THEN Throw(queryEmbedding.error, <<>>)
     ELSE IF queryEmbedding.kind = "vector"
     THEN IF env = "storeFails"
          THEN Throw("RetrievalFailure", <<"match_memories">>)
          ELSE Ok(Take(MatchMemories(queryEmbedding.vector, 0, limit,
                                     config[self].agentId,
                                     Column(opts, "userId"),
                                     Column(opts, "category"),
                                     MinImportanceParam(opts))
                         \o KeywordSearch(self, query, opts), limit),
                  <<"hybrid_search_memories">>)
     ELSE Recall(self, query, opts, env)

\* hybridRecall leaving the user, category and importance filters out of
\* the request
HybridRecallDropsFilters(self, query, opts, env) ==
  LET vectorWeight == Nullish(opts, "vectorWeight", DefaultVectorWeight)
      keywordWeight == Nullish(opts, "keywordWeight", DefaultKeywordWeight)
      queryEmbedding == GenerateEmbedding(self, query, env)
  IN IF queryEmbedding.kind = "throw"
     THEN Throw(queryEmbedding.error, <<>>)
     ELSE IF queryEmbedding.kind = "vector"
     THEN IF env = "storeFails"
          THEN Throw("RetrievalFailure", <<"hybrid_search_memories">>)
          ELSE Ok(HybridSearchMemories(queryEmbedding.vector, query,
                                       vectorWeight, keywordWeight,
                                       OrDefault(opts, "limit",
                                                 DefaultRecallLimit),
                                       config[self].agentId,
                                       Null, Null, {}),
                  <<"hybrid_search_memories">>)
     ELSE Recall(self, query, opts, env)

\* hybridRecall(query, opts)
HybridRecall(self, query, opts, env) ==
  LET vectorWeight == Nullish(opts, "vectorWeight", DefaultVectorWeight)
      keywordWeight == Nullish(opts, "keywordWeight", DefaultKeywordWeight)
      queryEmbedding == GenerateEmbedding(self, query, env)
  IN IF queryEmbedding.kind = "throw"
     THEN Throw(queryEmbedding.error, <<>>)
     ELSE IF queryEmbedding.kind = "vector"
     THEN IF env = "storeFails"
          THEN Throw("RetrievalFailure", <<"hybrid_search_memories">>)
          ELSE Ok(HybridSearchMemories(queryEmbedding.vector, query,
                                       vectorWeight, keywordWeight,
                                       OrDefault(opts, "limit",
                                                 DefaultRecallLimit),
                                       config[self].agentId,
                                       Column(opts, "userId"),
                                       Column(opts, "category"),
                                       MinImportanceParam(opts)),
                  <<"hybrid_search_memories">>)
     ELSE Recall(self, query, opts, env)

\* getMemories(opts)
GetMemories(self, opts, env) ==
  LET rows == { r \in memories :
                  /\ r.agent_id = config[self].agentId
                  /\ (Has(opts, "userId") /\ opts.userId # "")
                        => r.user_id = opts.userId
                  /\ CategoryMatches(r, opts) }
      Created(r) == r.created_at
      offset == OrDefault(opts, "offset", 0)
      limit == OrDefault(opts, "limit", DefaultGetMemoriesLimit)
      sorted == OrderDesc(rows, [r \in rows |-> Created(r)])
  IN IF env = "storeFails"
     THEN Throw("RetrievalFailure", <<"memories.select">>)
     ELSE Ok(SubSeq(sorted, offset + 1, Min(offset + limit, Len(sorted))),
             <<"memories.select">>)

\* findSimilarMemories without `if (error) throw error`
FindSimilarMemoriesSwallows(memoryId, opts, env) ==
  IF env = "storeFails" \/ SimilarSource(memoryId) = {}
  THEN Ok(<<>>, <<"find_similar_memories">>)
  ELSE Ok(FindSimilarRows(memoryId,
                          Nullish(opts, "minSimilarity",
                                  DefaultSimilarThreshold),
                          OrDefault(opts, "limit", DefaultSimilarLimit)),
          <<"find_similar_memories">>)

\* findSimilarMemories(memoryId, opts)
FindSimilarMemories(memoryId, opts, env) ==
  IF env = "storeFails"
  THEN Throw("RetrievalFailure", <<"find_similar_memories">>)
  ELSE IF SimilarSource(memoryId) = {}
       THEN Throw("NotFound", <<"find_similar_memories">>)
       ELSE Ok(FindSimilarRows(memoryId,
                               Nullish(opts, "minSimilarity",
                                       DefaultSimilarThreshold),
                               OrDefault(opts, "limit", DefaultSimilarLimit)),
               <<"find_similar_memories">>)

\* getMessages resuming after the rows the previous getContext returned
GetMessagesCursor(sessionId, opts) ==
  LET rows == { m \in messages : m.session_id = sessionId }
      Oldest(m) == 0 - m.created_at
      offset == IF last.op = "getContext" THEN Len(last.recentMessages)
                ELSE 0
      limit == OrDefault(opts, "limit", DefaultMessagesLimit)
      sorted == OrderDesc(rows, [r \in rows |-> Oldest(r)])
  IN SubSeq(sorted, offset + 1, Min(offset + limit, Len(sorted)))

\* getMessages(sessionId, opts)
GetMessages(sessionId, opts) ==
  LET rows == { m \in messages : m.session_id = sessionId }
      Oldest(m) == 0 - m.created_at
      offset == OrDefault(opts, "offset", 0)
      limit == OrDefault(opts, "limit", DefaultMessagesLimit)
      sorted == OrderDesc(rows, [r \in rows |-> Oldest(r)])
  IN SubSeq(sorted, offset + 1, Min(offset + limit, Len(sorted)))

\* --------------------------------------------------------------- Init
NoCall == Call("none", "X", <<>>, NoOpts, "ok", Ok(<<>>, <<>>))

\* a caller with no call in progress; otherwise pc is the await the call is
\* suspended at, and the other fields are the call's arguments and locals
Idle ==
  [pc |-> "idle", op |-> "none", query |-> <<>>, opts |-> NoOpts,
   env |-> "ok", queryEmbedding |-> EmbNull, delegated |-> FALSE,
   out |-> Ok(<<>>, <<>>), recentMessages |-> <<>>, overlapped |-> FALSE]

\* the constructor: one deployment, an instance per agent
Init ==
  /\ inflight = [c \in Callers |-> Idle]
  /\ \E pc \in ProviderConfigs :
       /\ config = [i \in Instances |->
                      [agentId |-> i,
                       embeddingProvider |-> pc.embeddingProvider,
                       openaiApiKey |-> pc.openaiApiKey]]
       /\ openai = [i \in Instances |->
                      pc.openaiApiKey \notin {"undefined", ""}]
  /\ memories = {}
  /\ messages = {}
  /\ nextId = 1
  /\ nextMsgId = 1
  /\ last = NoCall
  /\ forgotten = {}

\* ------------------------------------------------------------- actions
\* remember catching the embedding failure and storing the row without one
RememberWithoutEmbedding(self, memory, env) ==
  LET row == [id |-> nextId,
              agent_id |-> config[self].agentId,
              user_id |-> Column(memory, "userId"),
              category |-> Column(memory, "category"),
              content |-> memory.content,
              importance |-> Nullish(memory, "importance", DefaultImportance),
              created_at |-> nextId,
              expires_at |-> Column(memory, "expiresAt"),
              embedding |-> GenerateEmbeddingSwallows(self, memory.content,
                                                      env).vector]
  IN /\ nextId <= MaxMemories
     /\ EnvPossible(self, env)
     /\ IF env = "storeFails"
        THEN /\ last' = Call("remember", self, memory.content, memory, env,
                             Throw("RetrievalFailure", <<"memories.insert">>))
             /\ UNCHANGED <<memories, nextId, forgotten>>
        ELSE /\ last' = Call("remember", self, memory.content, memory, env,
                             Ok(<<row>>, <<"memories.insert">>))
             /\ memories' = memories \cup {row}
             /\ nextId' = nextId + 1
             /\ forgotten' = forgotten \ {row.id}
     /\ UNCHANGED <<inflight, config, openai, messages, nextMsgId>>

Remember(self, memory, env) ==
  LET embedding == GenerateEmbedding(self, memory.content, env)
      row == [id |-> nextId,
              agent_id |-> config[self].agentId,
              user_id |-> Column(memory, "userId"),
              category |-> Column(memory, "category"),
              content |-> memory.content,
              importance |-> Nullish(memory, "importance", DefaultImportance),
              created_at |-> nextId,
              expires_at |-> Column(memory, "expiresAt"),
              embedding |-> embedding.vector]
  IN /\ nextId <= MaxMemories
     /\ EnvPossible(self, env)
     /\ IF embedding.kind = "throw"
        THEN /\ last' = Call("remember", self, memory.content, memory, env,
                             Throw(embedding.error, <<>>))
             /\ UNCHANGED <<memories, nextId, forgotten>>
        ELSE IF env = "storeFails"
        THEN /\ last' = Call("remember", self, memory.content, memory, env,
                             Throw("RetrievalFailure", <<"memories.insert">>))
             /\ UNCHANGED <<memories, nextId, forgotten>>
        ELSE /\ last' = Call("remember", self, memory.content, memory, env,
                             Ok(<<row>>, <<"memories.insert">>))
             /\ memories' = memories \cup {row}
             /\ nextId' = nextId + 1
             /\ forgotten' = forgotten \ {row.id}
     /\ UNCHANGED <<inflight, config, openai, messages, nextMsgId>>

\* recall deleting the expired memories it meets
RecallCallPurgesExpired(self, query, opts, env) ==
  /\ EnvPossible(self, env)
  /\ last' = Call("recall", self, query, opts, env,
                  Recall(self, query, opts, env))
  /\ memories' = { r \in memories : r.expires_at # "past" }
  /\ UNCHANGED <<inflight, config, openai, messages, nextId, nextMsgId, forgotten>>

RecallCall(self, query, opts, env) ==
  /\ EnvPossible(self, env)
  /\ last' = Call("recall", self, query, opts, env,
                  Recall(self, query, opts, env))
  /\ UNCHANGED <<inflight, config, openai, memories, messages, nextId, nextMsgId,
                 forgotten>>

HybridRecallCall(self, query, opts, env) ==
  /\ EnvPossible(self, env)
  /\ last' = Call("hybridRecall", self, query, opts, env,
                  HybridRecall(self, query, opts, env))
  /\ UNCHANGED <<inflight, config, openai, memories, messages, nextId, nextMsgId,
                 forgotten>>

\* forget whose delete filter matches no row
ForgetKeepsRow(self, memoryId, env) ==
  /\ IF env = "storeFails"
     THEN /\ last' = Call("forget", self, <<>>, [memoryId |-> memoryId], env,
                          Throw("RetrievalFailure", <<"memories.delete">>))
          /\ UNCHANGED <<memories, forgotten>>
     ELSE /\ memories' = memories
          /\ forgotten' = forgotten \cup {memoryId}
          /\ last' = Call("forget", self, <<>>, [memoryId |-> memoryId], env,
                          Ok(<<>>, <<"memories.delete">>))
  /\ UNCHANGED <<inflight, config, openai, messages, nextId, nextMsgId>>

\* forget whose delete is filtered by the agent and not by the id
ForgetDeletesAgentRows(self, memoryId, env) ==
  /\ IF env = "storeFails"
     THEN /\ last' = Call("forget", self, <<>>, [memoryId |-> memoryId], env,
                          Throw("RetrievalFailure", <<"memories.delete">>))
          /\ UNCHANGED <<memories, forgotten>>
     ELSE /\ memories' = { r \in memories :
                             r.agent_id # config[self].agentId }
          /\ forgotten' = forgotten \cup {memoryId}
          /\ last' = Call("forget", self, <<>>, [memoryId |-> memoryId], env,
                          Ok(<<>>, <<"memories.delete">>))
  /\ UNCHANGED <<inflight, config, openai, messages, nextId, nextMsgId>>

Forget(self, memoryId, env) ==
  /\ IF env = "storeFails"
     THEN /\ last' = Call("forget", self, <<>>, [memoryId |-> memoryId], env,
                          Throw("RetrievalFailure", <<"memories.delete">>))
          /\ UNCHANGED <<memories, forgotten>>
     ELSE /\ memories' = { r \in memories : r.id # memoryId }
          /\ forgotten' = forgotten \cup {memoryId}
          /\ last' = Call("forget", self, <<>>, [memoryId |-> memoryId], env,
                          Ok(<<>>, <<"memories.delete">>))
  /\ UNCHANGED <<inflight, config, openai, messages, nextId, nextMsgId>>

GetMemoriesCall(self, opts, env) ==
  /\ last' = Call("getMemories", self, <<>>, opts, env,
                  GetMemories(self, opts, env))
  /\ UNCHANGED <<inflight, config, openai, memories, messages, nextId, nextMsgId,
                 forgotten>>

FindSimilarMemoriesCall(self, memoryId, opts, env) ==
  /\ last' = Call("findSimilarMemories", self, <<>>,
                  [memoryId |-> memoryId] @@ opts, env,
                  FindSimilarMemories(memoryId, opts, env))
  /\ UNCHANGED <<inflight, config, openai, memories, messages, nextId, nextMsgId,
                 forgotten>>

AddMessage(self, sessionId, env) ==
  LET row == [id |-> nextMsgId, session_id |-> sessionId, role |-> "user",
              created_at |-> nextMsgId]
  IN /\ nextMsgId <= MaxMessages
     /\ IF env = "storeFails"
        THEN /\ last' = Call("addMessage", self, <<>>,
                             [sessionId |-> sessionId], env,
                             Throw("RetrievalFailure", <<"messages.insert">>))
             /\ UNCHANGED <<messages, nextMsgId>>
        ELSE /\ messages' = messages \cup {row}
             /\ nextMsgId' = nextMsgId + 1
             /\ last' = Call("addMessage", self, <<>>,
                             [sessionId |-> sessionId], env,
                             Ok(<<row>>, <<"messages.insert">>))
     /\ UNCHANGED <<inflight, config, openai, memories, nextId, forgotten>>

\* the options getContext hands to recall
ContextRecallOpts(opts) ==
  (IF Has(opts, "userId") THEN [userId |-> opts.userId] ELSE NoOpts)
    @@ [limit |-> OrDefault(opts, "maxMemories", DefaultMaxMemories)]

Summary(rows) ==
  IF Len(rows) > 0
  THEN [header |-> "Relevant memories:",
        bullets |-> [i \in 1..Len(rows) |-> rows[i].content]]
  ELSE [header |-> "No relevant memories found.", bullets |-> <<>>]

WantsMessages(opts) == Has(opts, "sessionId") /\ opts.sessionId # ""

\* the payload of getContext(query, opts), or the error it throws; calls
\* lists the methods of the instance it invoked, with their options
ContextPayload(self, query, opts, env) ==
  LET recallOpts == ContextRecallOpts(opts)
      messageOpts == [limit |-> OrDefault(opts, "maxMessages",
                                          DefaultMaxMessages)]
      rec == Recall(self, query, recallOpts,
                    IF env = "messagesFail" THEN "ok" ELSE env)
      recentMessages ==
        IF WantsMessages(opts)
        THEN GetMessages(opts.sessionId, messageOpts)
        ELSE <<>>
      asked == rec.queries \o (IF WantsMessages(opts)
                               THEN <<"messages.select">> ELSE <<>>)
      recallCall == <<[op |-> "recall", opts |-> recallOpts]>>
      bothCalls == recallCall \o (IF WantsMessages(opts)
                                  THEN <<[op |-> "getMessages",
                                          opts |-> messageOpts]>>
                                  ELSE <<>>)
  IN IF rec.status = "error"
     THEN [Call("getContext", self, query, opts, env, rec)
             EXCEPT !.calls = recallCall]
     ELSE IF env = "messagesFail"
     THEN [Call("getContext", self, query, opts, env,
                Throw("RetrievalFailure", asked))
             EXCEPT !.calls = bothCalls]
     ELSE [Call("getContext", self, query, opts, env, Ok(rec.result, asked))
             EXCEPT !.recentMessages = recentMessages,
                    !.summary = Summary(rec.result),
                    !.calls = bothCalls]

\* same successful call as the one just before it
SameCall(a, b) ==
  /\ a.op = b.op /\ a.self = b.self /\ a.query = b.query /\ a.opts = b.opts
  /\ a.status = "ok" /\ b.status = "ok"

GetContext(self, query, opts, env) ==
  LET payload == ContextPayload(self, query, opts, env)
  IN /\ EnvPossible(self, env)
     /\ env = "messagesFail" => WantsMessages(opts)
     /\ last' = [payload EXCEPT !.repeat = SameCall(last, payload)]
     /\ UNCHANGED <<inflight, config, openai, memories, messages, nextId, nextMsgId,
                    forgotten>>

ContextOpts ==
  { NoOpts,
    [sessionId |-> "s1"],
    [sessionId |-> "s1", maxMessages |-> 2],
    [sessionId |-> "s1", maxMessages |-> 1, maxMemories |-> 1,
     userId |-> "u2"],
    [sessionId |-> "s2", maxMessages |-> 0, maxMemories |-> 0] }

ContextQueries == { <<"t", "s">> }

GetMemoriesOpts ==
  { NoOpts,
    [userId |-> "u1"],
    [category |-> "c1", limit |-> 1],
    [limit |-> 1, offset |-> 1] }

SimilarOpts ==
  { NoOpts,
    [minSimilarity |-> 70, limit |-> 1] }

StoreEnvs == {"ok", "storeFails"}

MemoryIds == 1..MaxMemories

DoRemember ==
  \E self \in Instances : \E memory \in MemoryInputs(self), env \in Envs :
    Remember(self, memory, env)

DoRecall ==
  \E self \in Readers, query \in Queries, opts \in RecallOpts, env \in Envs :
    RecallCall(self, query, opts, env)

DoHybridRecall ==
  \E self \in Readers, query \in Queries, opts \in HybridOpts, env \in Envs :
    HybridRecallCall(self, query, opts, env)

DoForget ==
  \E self \in Readers, memoryId \in MemoryIds, env \in StoreEnvs :
    Forget(self, memoryId, env)

DoGetMemories ==
  \E self \in Readers, opts \in GetMemoriesOpts, env \in StoreEnvs :
    GetMemoriesCall(self, opts, env)

DoFindSimilarMemories ==
  \E self \in Readers, memoryId \in MemoryIds, opts \in SimilarOpts,
     env \in StoreEnvs :
    FindSimilarMemoriesCall(self, memoryId, opts, env)

DoAddMessage ==
  \E self \in Readers, sessionId \in Sessions, env \in StoreEnvs :
    AddMessage(self, sessionId, env)

DoGetContext ==
  \E self \in Readers, query \in ContextQueries, opts \in ContextOpts,
     env \in ContextEnvs :
    GetContext(self, query, opts, env)

\* the memory operations
Next ==
  \/ DoRemember
  \/ DoRecall
  \/ DoHybridRecall
  \/ DoForget
  \/ DoGetMemories
  \/ DoFindSimilarMemories

Spec == Init /\ [][Next]_vars

\* the context assembler over a growing store and message log
NextCtx ==
  \/ DoRemember
  \/ DoAddMessage
  \/ DoGetContext

SpecCtx == Init /\ [][NextCtx]_vars

\* every reading operation beside the writers, with plain options
FrameContextOpts == { NoOpts, [sessionId |-> "s1"] }

DoPlainRecall ==
  \E self \in Readers, query \in Queries, env \in Envs :
    RecallCall(self, query, NoOpts, env)

DoPlainHybridRecall ==
  \E self \in Readers, query \in Queries, env \in Envs :
    HybridRecallCall(self, query, NoOpts, env)

DoPlainFindSimilarMemories ==
  \E self \in Readers, memoryId \in MemoryIds, env \in StoreEnvs :
    FindSimilarMemoriesCall(self, memoryId, NoOpts, env)

DoPlainGetContext ==
  \E self \in Readers, query \in ContextQueries, opts \in FrameContextOpts,
     env \in ContextEnvs :
    GetContext(self, query, opts, env)

DoAddMessageToFirstSession ==
  \E self \in Readers, env \in StoreEnvs : AddMessage(self, "s1", env)

\* readers and writers of both tables together
NextFrame ==
  \/ DoRemember
  \/ DoForget
  \/ DoAddMessageToFirstSession
  \/ DoPlainRecall
  \/ DoPlainHybridRecall
  \/ DoPlainFindSimilarMemories
  \/ DoPlainGetContext

SpecFrame == Init /\ [][NextFrame]_vars

\* ------------------------------------- calls interleaved at their awaits
\* Callers share the instance of agent X.  A call runs up to its next await
\* in one step: the embedding request, the store request and, in
\* getContext, the messages request.  Between two steps of one call the
\* other caller may take steps of its own.
ConcurrentEnvs == {"ok", "storeFails"}

ConcurrentCalls ==
  { [op |-> "recall", opts |-> NoOpts],
    [op |-> "hybridRecall", opts |-> NoOpts],
    [op |-> "getContext", opts |-> [sessionId |-> "s1"]] }

AllIdle == \A c \in Callers : inflight[c].pc = "idle"

\* the options of the recall a call is in
InnerOpts(f) == IF f.op = "getContext" THEN ContextRecallOpts(f.opts) ELSE f.opts

\* the answer of the store request of a call holding queryEmbedding
StoreAnswer(self, f) ==
  LET opts == InnerOpts(f)
      limit == OrDefault(opts, "limit", DefaultRecallLimit)
  IN IF f.queryEmbedding.kind = "vector" /\ f.op = "hybridRecall"
     THEN IF f.env = "storeFails"
          THEN Throw("RetrievalFailure", <<"hybrid_search_memories">>)
          ELSE Ok(HybridSearchMemories(f.queryEmbedding.vector, f.query,
                                       Nullish(opts, "vectorWeight",
                                               DefaultVectorWeight),
                                       Nullish(opts, "keywordWeight",
                                               DefaultKeywordWeight),
                                       limit, config[self].agentId,
                                       Column(opts, "userId"),
                                       Column(opts, "category"),
                                       MinImportanceParam(opts)),
                  <<"hybrid_search_memories">>)
     ELSE IF f.queryEmbedding.kind = "vector"
     THEN IF f.env = "storeFails"
          THEN Throw("RetrievalFailure", <<"match_memories">>)
          ELSE Ok(MatchMemories(f.queryEmbedding.vector,
                                Nullish(opts, "minSimilarity",
                                        DefaultMinSimilarity),
                                limit, config[self].agentId,
                                Column(opts, "userId"),
                                Column(opts, "category"),
                                MinImportanceParam(opts)),
                  <<"match_memories">>)
     ELSE IF f.env = "storeFails"
          THEN Throw("RetrievalFailure", <<"memories.select">>)
          ELSE Ok(KeywordSearch(self, f.query, opts), <<"memories.select">>)

\* a caller starts a call: it runs up to the embedding request
Begin(c, call, query, env) ==
  /\ inflight[c].pc = "idle"
  /\ inflight' = [inflight EXCEPT ![c] =
                    [Idle EXCEPT !.pc = "embedding", !.op = call.op,
                                 !.opts = call.opts, !.query = query,
                                 !.env = env]]
  /\ UNCHANGED <<config, openai, memories, messages, nextId, nextMsgId,
                 last, forgotten>>

\* the embedding answer as a field of the instance: it lands in every call
\* that is waiting between its embedding and its store request
EmbeddedIntoSharedField(c) ==
  LET f == inflight[c]
      e == GenerateEmbedding("X", f.query, f.env)
  IN /\ f.pc = "embedding"
     /\ inflight' =
          [d \in Callers |->
             IF d = c
             THEN IF e.kind = "throw"
                  THEN [f EXCEPT !.pc = "settled",
                                 !.out = Throw(e.error, <<>>)]
                  ELSE IF f.op = "hybridRecall" /\ e.kind = "null"
                          /\ ~f.delegated
                  THEN [f EXCEPT !.delegated = TRUE]
                  ELSE [f EXCEPT !.pc = "querying", !.queryEmbedding = e]
             ELSE IF inflight[d].pc = "querying" /\ e.kind = "vector"
                  THEN [inflight[d] EXCEPT !.queryEmbedding = e]
                  ELSE inflight[d]]
     /\ UNCHANGED <<config, openai, memories, messages, nextId, nextMsgId,
                    last, forgotten>>

\* generateEmbedding answers: the call throws, or keeps the answer in its
\* local queryEmbedding and goes on to the store request; hybridRecall
\* without an embedding delegates to recall, which asks once more
Embedded(c) ==
  LET f == inflight[c]
      e == GenerateEmbedding("X", f.query, f.env)
  IN /\ f.pc = "embedding"
     /\ inflight' = [inflight EXCEPT ![c] =
          IF e.kind = "throw"
          THEN [f EXCEPT !.pc = "settled", !.out = Throw(e.error, <<>>)]
          ELSE IF f.op = "hybridRecall" /\ e.kind = "null" /\ ~f.delegated
          THEN [f EXCEPT !.delegated = TRUE]
          ELSE [f EXCEPT !.pc = "querying", !.queryEmbedding = e]]
     /\ UNCHANGED <<config, openai, memories, messages, nextId, nextMsgId,
                    last, forgotten>>

\* the store request answers; getContext goes on to the messages request
Queried(c) ==
  LET f == inflight[c]
      out == StoreAnswer("X", f)
      more == f.op = "getContext" /\ out.status = "ok" /\ WantsMessages(f.opts)
  IN /\ f.pc = "querying"
     /\ inflight' = [inflight EXCEPT ![c] =
          [f EXCEPT !.pc = IF more THEN "messaging" ELSE "settled",
                    !.out = out,
                    !.overlapped = \E d \in Callers \ {c} :
                                      inflight[d].pc = "querying"]]
     /\ UNCHANGED <<config, openai, memories, messages, nextId, nextMsgId,
                    last, forgotten>>

\* the messages request of getContext answers
Messaged(c) ==
  LET f == inflight[c]
      rows == GetMessages(f.opts.sessionId,
                          [limit |-> OrDefault(f.opts, "maxMessages",
                                               DefaultMaxMessages)])
  IN /\ f.pc = "messaging"
     /\ inflight' = [inflight EXCEPT ![c] =
          [f EXCEPT !.pc = "settled",
                    !.out = Ok(f.out.result,
                               f.out.queries \o <<"messages.select">>),
                    !.recentMessages = rows]]
     /\ UNCHANGED <<config, openai, memories, messages, nextId, nextMsgId,
                    last, forgotten>>

\* the caller has received the outcome: its slot is free again
Returned(c) ==
  /\ inflight[c].pc = "settled"
  /\ inflight' = [inflight EXCEPT ![c] = Idle]
  /\ UNCHANGED <<config, openai, memories, messages, nextId, nextMsgId,
                 last, forgotten>>

ConcurrentQueries == { <<"t", "s">>, <<"c">> }

DoBegin ==
  \E c \in Callers, call \in ConcurrentCalls, query \in ConcurrentQueries,
     env \in ConcurrentEnvs :
    Begin(c, call, query, env)

DoEmbedded == \E c \in Callers : Embedded(c)

DoQueried == \E c \in Callers : Queried(c)

DoMessaged == \E c \in Callers : Messaged(c)

DoReturned == \E c \in Callers : Returned(c)

\* the store is written only while no call is in progress
DoRememberWhileIdle ==
  /\ AllIdle
  /\ \E memory \in MemoryInputs("X") : Remember("X", memory, "ok")

DoAddMessageWhileIdle == AllIdle /\ AddMessage("X", "s1", "ok")

NextInterleaved ==
  \/ DoRememberWhileIdle
  \/ DoAddMessageWhileIdle
  \/ DoBegin
  \/ DoEmbedded
  \/ DoQueried
  \/ DoMessaged
  \/ DoReturned

SpecInterleaved == Init /\ [][NextInterleaved]_vars

\* ==================================================================
\* Properties
\* ==================================================================
Range(seq) == { seq[i] : i \in 1..Len(seq) }

\* the provider answers Unavailable: none configured, or 'none'
Unavailable(self) == config[self].embeddingProvider \in {"undefined", "none"}

\* a provider is configured and producing the embedding fails
ProviderFatal(self, env) ==
  /\ ~Unavailable(self)
  /\ \/ config[self].embeddingProvider = "voyage"
     \/ ~openai[self]
     \/ env = "providerFails"

OwnRows(self) == { r \in memories : r.agent_id = config[self].agentId }

\* C1: when the provider is Unavailable, hybridRecall(query, opts) ends
\* exactly as recall(query, opts) does on the same store: same status, same
\* ordered rows, the single keyword request and no hybrid request.
C1_HybridDegradesToRecall ==
  (last.op = "hybridRecall" /\ Unavailable(last.self)) =>
     LET r == Recall(last.self, last.query, last.opts, last.env)
     IN /\ last.status = r.status
        /\ last.error = r.error
        /\ last.result = r.result
        /\ last.queries = r.queries
        /\ last.queries = <<"memories.select">>

C1_Witness ==
  /\ last.op = "hybridRecall"
  /\ Unavailable(last.self)
  /\ last.opts = [limit |-> 1]
  /\ last.status = "ok"
  /\ Len(last.result) = 1
  /\ Cardinality({ r \in OwnRows(last.self) :
                     ILike(r.content, last.query) }) >= 2

\* what the filters of a recall call ask of a returned row
SatisfiesFilters(r, opts) ==
  /\ Has(opts, "userId") => (r.user_id = opts.userId \/ r.user_id = Null)
  /\ Has(opts, "category") => r.category = opts.category
  /\ Has(opts, "minImportance") => r.importance >= opts.minImportance

\* C2: a successful recall returns at most opts.limit rows (10 when no
\* limit is given) and every returned row satisfies every supplied filter.
C2_RecallBoundedAndFiltered ==
  (last.op = "recall" /\ last.status = "ok") =>
     /\ Len(last.result) <= Nullish(last.opts, "limit", DefaultRecallLimit)
     /\ \A i \in 1..Len(last.result) :
          SatisfiesFilters(last.result[i], last.opts)

\* C3: recall and hybridRecall called with limit <= 0 return the empty
\* sequence, and fail only when a collaborator fails.
C3_LimitZeroReturnsEmpty ==
  (/\ last.op \in {"recall", "hybridRecall"}
   /\ Has(last.opts, "limit")
   /\ last.opts.limit <= 0) =>
     /\ last.status = "ok" => last.result = <<>>
     /\ last.status = "error" =>
          last.error \in ProviderErrors \cup {"RetrievalFailure"}

\* C4: recall issues exactly one store request, chosen by the provider's
\* answer: the vector request when a vector came back, the keyword request
\* when the provider is Unavailable, and then Unavailable is no error of the
\* call.
C4_RecallSelectsStrategy ==
  last.op = "recall" =>
     /\ (CallsProvider(last.self) /\ last.env # "providerFails") =>
          last.queries = <<"match_memories">>
     /\ Unavailable(last.self) =>
          /\ last.queries = <<"memories.select">>
          /\ last.error \notin ProviderErrors
          /\ last.env = "ok" => last.status = "ok"

C4_Witness ==
  /\ last.op = "recall"
  /\ CallsProvider(last.self)
  /\ last.status = "ok"
  /\ last.queries = <<"match_memories">>
  /\ \E r \in OwnRows(last.self) : ILike(r.content, last.query)
  /\ last.result = <<>>

\* C5: when a provider is configured and producing the embedding fails,
\* recall and hybridRecall fail with the provider's error, issue no store
\* request and return no rows.
C5_ProviderErrorPropagates ==
  (/\ last.op \in {"recall", "hybridRecall"}
   /\ ProviderFatal(last.self, last.env)) =>
     /\ last.status = "error"
     /\ last.error \in ProviderErrors
     /\ last.queries = <<>>
     /\ last.result = <<>>

C5_Witness ==
  /\ last.op = "hybridRecall"
  /\ last.error = "OpenAI request failed"
  /\ \E r \in OwnRows(last.self) : ILike(r.content, last.query)

\* C6: a remember whose embedding generation fails fatally fails and leaves
\* the memories table as it was, without a store request; a remember under
\* an Unavailable provider inserts exactly one row, with no embedding,
\* unless the insert itself fails, which also leaves the table as it was.
C6_RememberEmbedsBeforeWrite ==
  [][ last'.op = "remember" =>
        /\ ProviderFatal(last'.self, last'.env) =>
             /\ last'.status = "error"
             /\ last'.error \in ProviderErrors
             /\ last'.queries = <<>>
             /\ memories' = memories
        /\ last'.status = "error" => memories' = memories
        /\ (Unavailable(last'.self) /\ last'.env = "ok") =>
             /\ last'.status = "ok"
             /\ \E row \in memories' \ memories :
                  /\ memories' = memories \cup {row}
                  /\ row.embedding = Null
                  /\ row.content = last'.query
                  /\ last'.result = <<row>> ]_vars

C6_Witness ==
  /\ last.op = "remember"
  /\ last.error = "OpenAI request failed"
  /\ memories # {}
  /\ \A r \in memories : r.embedding # Null

\* C7: recall, hybridRecall and getMemories return no memory whose id was
\* forgotten and not remembered again; forget of an id that is not in the
\* store succeeds and leaves the store as it was.
C7_ForgottenNeverReturned ==
  /\ [](last.op \in {"recall", "hybridRecall", "getMemories"} =>
          Ids(last.result) \cap forgotten = {})
  /\ [][ (/\ last'.op = "forget"
          /\ last'.env = "ok"
          /\ last'.opts.memoryId \notin { r.id : r \in memories }) =>
            (last'.status = "ok" /\ memories' = memories) ]_vars

C7_Witness ==
  /\ last.op \in {"recall", "hybridRecall", "getMemories"}
  /\ last.status = "ok"
  /\ last.result # <<>>
  /\ \E id \in forgotten : id < nextId

\* C8: findSimilarMemories(id) never returns the memory id itself, and
\* fails with NotFound when that memory is absent or has no embedding.
C8_FindSimilarExcludesSelf ==
  last.op = "findSimilarMemories" =>
     /\ last.opts.memoryId \notin Ids(last.result)
     /\ (last.env = "ok" /\ SimilarSource(last.opts.memoryId) = {}) =>
          (last.status = "error" /\ last.error = "NotFound")

C8_Witness ==
  /\ last.op = "findSimilarMemories"
  /\ last.error = "NotFound"
  /\ \E r \in memories : r.id = last.opts.memoryId

\* the n newest messages of a session, oldest first
MostRecentMessages(sessionId, n) ==
  LET rows == { m \in messages : m.session_id = sessionId }
      Oldest(m) == 0 - m.created_at
      sorted == OrderDesc(rows, [r \in rows |-> Oldest(r)])
  IN SubSeq(sorted, Len(sorted) - Min(n, Len(sorted)) + 1, Len(sorted))

\* C9: getContext with a sessionId returns the maxMessages (default 20)
\* newest messages of the session, oldest first.
C9_RecentMessagesAreNewest ==
  (/\ last.op = "getContext"
   /\ last.status = "ok"
   /\ WantsMessages(last.opts)) =>
     last.recentMessages =
       MostRecentMessages(last.opts.sessionId,
                          OrDefault(last.opts, "maxMessages",
                                    DefaultMaxMessages))

C11_ContextRendersRecall ==
  last.op = "getContext" =>
    LET claimed ==
          (IF Has(last.opts, "userId")
           THEN [userId |-> last.opts.userId] ELSE NoOpts)
            @@ [limit |-> Nullish(last.opts, "maxMemories",
                                  DefaultMaxMemories)]
    IN /\ last.calls[1] = [op |-> "recall", opts |-> claimed]
       /\ \A i \in 1..Len(last.calls) : last.calls[i].op # "hybridRecall"
       /\ "hybrid_search_memories" \notin Range(last.queries)
       /\ last.status = "ok" =>
            /\ last.result = Recall(last.self, last.query, claimed, "ok").result
            /\ IF last.result = <<>>
               THEN last.summary = [header |-> "No relevant memories found.",
                                    bullets |-> <<>>]
               ELSE /\ last.summary.header = "Relevant memories:"
                    /\ Len(last.summary.bullets) = Len(last.result)
                    /\ \A i \in 1..Len(last.result) :
                         last.summary.bullets[i] = last.result[i].content


\* the recall just made took the semantic path and succeeded
SemanticRecall ==
  /\ last.op = "recall"
  /\ last.status = "ok"
  /\ last.queries = <<"match_memories">>

\* cosine similarity of a returned row to the query of the last call
QuerySim(r) == CosineSim(r.embedding, Embed(last.query))

\* C12: on the semantic path of recall every returned memory has a cosine
\* similarity to the query of at least minSimilarity (0.7 when the option is
\* omitted), and the result is ordered by non-increasing similarity.
C12_SemanticThresholdAndOrder ==
  SemanticRecall =>
    /\ \A i \in 1..Len(last.result) :
         /\ last.result[i].embedding # Null
         /\ QuerySim(last.result[i]) >=
              Nullish(last.opts, "minSimilarity", DefaultMinSimilarity)
    /\ \A i, j \in 1..Len(last.result) :
         i < j => QuerySim(last.result[i]) >= QuerySim(last.result[j])

\* two rows come back in similarity order, the older one first: the order is
\* by similarity and not by recency
C12_Witness ==
  /\ SemanticRecall
  /\ ~Has(last.opts, "minSimilarity")
  /\ Len(last.result) = 2
  /\ QuerySim(last.result[1]) > QuerySim(last.result[2])
  /\ QuerySim(last.result[2]) >= DefaultMinSimilarity
  /\ last.result[1].created_at < last.result[2].created_at


\* the recall just made took the keyword path and succeeded
KeywordRecall ==
  /\ last.op = "recall"
  /\ last.status = "ok"
  /\ last.queries = <<"memories.select">>

\* text occurs in content as it is written, letter case apart
Contains(content, text) ==
  \E k \in 0..Len(content) :
     /\ k + Len(text) <= Len(content)
     /\ \A i \in 1..Len(text) : Lower(content[k + i]) = Lower(text[i])

\* C13: on the keyword path of recall every returned memory belongs to the
\* instance's agent and contains the query text (letter case apart), and the
\* result is ordered by importance descending, equal importance by
\* created_at descending.
C13_KeywordSubstringAndOrder ==
  KeywordRecall =>
    /\ \A i \in 1..Len(last.result) :
         /\ last.result[i].agent_id = config[last.self].agentId
         /\ Contains(last.result[i].content, last.query)
    /\ \A i, j \in 1..Len(last.result) :
         i < j =>
           \/ last.result[i].importance > last.result[j].importance
           \/ /\ last.result[i].importance = last.result[j].importance
              /\ last.result[i].created_at > last.result[j].created_at


\* the row matches the query on the path the last recall took
MatchesQuery(r) ==
  IF last.queries = <<"match_memories">>
  THEN /\ r.embedding # Null
       /\ QuerySim(r) >= Nullish(last.opts, "minSimilarity",
                                 DefaultMinSimilarity)
  ELSE ILike(r.content, last.query)

\* C14: a recall given a userId filter returns a memory only if its user_id
\* equals the filter or it has no owning user, and every memory of the agent
\* that matches the query and the other filters and is visible in that way
\* is returned (as far as the limit allows): agent-global memories for every
\* userId, another user's memory never.
C14_UserFilterVisibility ==
  (last.op = "recall" /\ last.status = "ok" /\ Has(last.opts, "userId")) =>
    /\ \A i \in 1..Len(last.result) :
         \/ last.result[i].user_id = last.opts.userId
         \/ last.result[i].user_id = Null
    /\ Len(last.result) < OrDefault(last.opts, "limit", DefaultRecallLimit) =>
         \A r \in OwnRows(last.self) :
            (/\ MatchesQuery(r)
             /\ SatisfiesFilters(r, last.opts)) => r \in Range(last.result)

\* under the filter of user u2 an agent-global memory comes back and a
\* matching memory owned by u1 does not
C14_Witness ==
  /\ KeywordRecall
  /\ last.opts = [userId |-> "u2"]
  /\ \E i \in 1..Len(last.result) : last.result[i].user_id = Null
  /\ \E r \in OwnRows(last.self) :
       /\ r.user_id = "u1"
       /\ ILike(r.content, last.query)
       /\ r \notin Range(last.result)


\* the hybridRecall just made had an embedding and succeeded
HybridPath ==
  /\ last.op = "hybridRecall"
  /\ last.status = "ok"
  /\ last.queries = <<"hybrid_search_memories">>

\* the two candidate sets of the last hybridRecall, under its filters
VectorCandidates ==
  { r \in OwnRows(last.self) :
      SatisfiesFilters(r, last.opts) /\ r.embedding # Null }

KeywordCandidates ==
  { r \in OwnRows(last.self) :
      SatisfiesFilters(r, last.opts) /\ ILike(r.content, last.query) }

\* the fused score the claim gives a candidate, in thousandths: weights in
\* tenths (7 and 3 when omitted), sub-scores in hundredths, a sub-score of a
\* set the candidate is not in counted as 0
ClaimedScore(r) ==
  Nullish(last.opts, "vectorWeight", DefaultVectorWeight)
    * (IF r \in VectorCandidates THEN QuerySim(r) ELSE 0)
  + Nullish(last.opts, "keywordWeight", DefaultKeywordWeight)
    * (IF r \in KeywordCandidates THEN 100 ELSE 0)

C16_HybridOutputHasNoDuplicates ==
  (last.op = "hybridRecall" /\ last.status = "ok") =>
    \A i, j \in 1..Len(last.result) :
       i # j => last.result[i].id # last.result[j].id

\* two memories come back, one of them a candidate of both searches
C16_Witness ==
  /\ HybridPath
  /\ Len(last.result) = 2
  /\ \E i \in 1..Len(last.result) :
       last.result[i] \in VectorCandidates \cap KeywordCandidates


\* C17: hybridRecall never returns a memory that is in neither the vector
\* candidate set nor the keyword candidate set of the call's filters.
C17_HybridReturnsOnlyCandidates ==
  (last.op = "hybridRecall" /\ last.status = "ok") =>
    \A i \in 1..Len(last.result) :
       last.result[i] \in VectorCandidates \cup KeywordCandidates

\* a filtered hybridRecall returns a memory while another memory of the
\* agent, in neither candidate set, stays out
C17_Witness ==
  /\ HybridPath
  /\ last.opts # NoOpts
  /\ last.result # <<>>
  /\ \E r \in OwnRows(last.self) :
       /\ r \notin VectorCandidates \cup KeywordCandidates
       /\ r.embedding # Null
       /\ r \notin Range(last.result)


\* the memories of the agent the last recall or hybridRecall could return
Qualifying ==
  IF HybridPath THEN VectorCandidates \cup KeywordCandidates
  ELSE { r \in OwnRows(last.self) :
           SatisfiesFilters(r, last.opts) /\ MatchesQuery(r) }

\* C18: when the store request of recall or hybridRecall fails the call
\* fails with RetrievalFailure and returns no rows in its place; the request
\* is made once and not retried; an empty result is returned only when the
\* request succeeded and no memory qualified.
C18_StoreFailurePropagates ==
  last.op \in {"recall", "hybridRecall"} =>
    /\ (last.env = "storeFails" /\ ~ProviderFatal(last.self, last.env)) =>
         /\ last.status = "error"
         /\ last.error = "RetrievalFailure"
         /\ Len(last.queries) = 1
    /\ last.status = "ok" =>
         /\ last.env # "storeFails"
         /\ Len(last.queries) = 1
         /\ last.result = <<>> => Qualifying = {}

\* the store request of a recall fails although a memory would have matched
C18_Witness ==
  /\ last.op = "recall"
  /\ last.env = "storeFails"
  /\ last.error = "RetrievalFailure"
  /\ last.queries = <<"memories.select">>
  /\ \E r \in OwnRows(last.self) : ILike(r.content, last.query)


\* the store requests that only read
ReadRequests ==
  { "match_memories", "hybrid_search_memories", "find_similar_memories",
    "memories.select", "messages.select" }

ReadOperations == {"recall", "hybridRecall", "findSimilarMemories", "getContext"}

\* C19: recall, hybridRecall, findSimilarMemories and getContext leave the
\* stored memories and messages as they were, whether the call succeeds or
\* fails, and every store request they issue is a read, so that a call
\* abandoned after any of its requests has changed nothing either; the
\* memories change only in remember and forget.
C19_RecallPathsAreReadOnly ==
  [][ /\ last'.op \in ReadOperations =>
           /\ memories' = memories
           /\ messages' = messages
           /\ Range(last'.queries) \subseteq ReadRequests
      /\ memories' # memories => last'.op \in {"remember", "forget"}
    ]_vars

\* a getContext fails at its second request over a store that holds an
\* expired memory and a message
C19_Witness ==
  /\ last.op = "getContext"
  /\ last.status = "error"
  /\ last.queries = <<"memories.select", "messages.select">>
  /\ \E r \in memories : r.expires_at = "past"
  /\ messages # {}


\* C20: every memory a call of remember, recall, hybridRecall, getMemories
\* or findSimilarMemories returns, and every memory a call of forget
\* deletes, has the agent_id of the instance the call was made on.
C20_OperationsAreAgentScoped ==
  [][ /\ \A i \in 1..Len(last'.result) :
           last'.op \in {"remember", "recall", "hybridRecall", "getMemories",
                         "findSimilarMemories"} =>
             last'.result[i].agent_id = config[last'.self].agentId
      /\ last'.op = "forget" =>
           \A r \in memories \ memories' :
              r.agent_id = config[last'.self].agentId
    ]_vars


\* what the call of caller c returns when it runs alone on the present store
Alone(c) ==
  LET f == inflight[c]
  IN IF f.op = "recall" THEN Recall("X", f.query, f.opts, f.env)
     ELSE IF f.op = "hybridRecall"
     THEN HybridRecall("X", f.query, f.opts, f.env)
     ELSE ContextPayload("X", f.query, f.opts, f.env)

SameOutcome(c) ==
  LET f == inflight[c]
      alone == Alone(c)
  IN /\ f.out.status = alone.status
     /\ f.out.error = alone.error
     /\ f.out.result = alone.result
     /\ f.out.queries = alone.queries
     /\ f.op = "getContext" => f.recentMessages = alone.recentMessages

\* C21: whatever the interleaving of recall, hybridRecall and getContext
\* calls of callers sharing one instance, with the store written only while
\* no call is in progress, each call ends with the outcome it has when run
\* alone; and no step changes the instance's configuration (agentId,
\* provider selection, OpenAI client).
C21_InterleavedCallsAreIndependent ==
  /\ [](\A c \in Callers : inflight[c].pc = "settled" => SameOutcome(c))
  /\ [][config' = config /\ openai' = openai]_vars

\* a call ends with rows while the other caller's call, with another query,
\* sat between its embedding answer and its store request
C21_Witness ==
  \E c \in Callers : \E d \in Callers \ {c} :
     /\ inflight[c].pc = "settled"
     /\ inflight[c].overlapped
     /\ inflight[c].queryEmbedding.kind = "vector"
     /\ inflight[c].out.result # <<>>
     /\ inflight[d].pc \in {"querying", "settled"}
     /\ inflight[d].queryEmbedding.kind = "vector"
     /\ inflight[d].query # inflight[c].query


\* C22: forget(id) removes at most the memory whose id is id: every memory
\* with another id stays in the store with all its fields, no message
\* changes, a failed forget removes nothing, and a forget(id) directly after
\* a successful forget(id) leaves the store as the first one left it.
C22_ForgetTouchesOneRow ==
  [][ last'.op = "forget" =>
        /\ memories' \subseteq memories
        /\ \A r \in memories :
              r.id # last'.opts.memoryId => r \in memories'
        /\ \A r \in memories' : r.id # last'.opts.memoryId
             \/ last'.status = "error"
        /\ last'.status = "error" => memories' = memories
        /\ messages' = messages
        /\ nextId' = nextId /\ nextMsgId' = nextMsgId
        /\ (last.op = "forget" /\ last.status = "ok"
            /\ last.opts = last'.opts) => memories' = memories
    ]_vars

\* a forget has removed a memory that had been stored, while another memory
\* and a message are in the store
C22_Witness ==
  /\ last.op = "forget"
  /\ last.status = "ok"
  /\ last.opts.memoryId < nextId
  /\ \A r \in memories : r.id # last.opts.memoryId
  /\ \E r \in memories : r.agent_id = config[last.self].agentId
  /\ messages # {}


\* r precedes x in the order of the keyword path
KeywordBefore(r, x) ==
  \/ r.importance > x.importance
  \/ r.importance = x.importance /\ r.created_at > x.created_at

\* C23: on the keyword path of recall and in getMemories whether a memory
\* is returned is decided by its agent_id, the supplied filters, the content
\* match and its place within the limit (and offset) alone; expires_at plays
\* no part, so a memory whose expiry is past is returned like any other.
C23_ExpiryIsIgnored ==
  /\ KeywordRecall =>
       LET qual == { r \in OwnRows(last.self) :
                       /\ SatisfiesFilters(r, last.opts)
                       /\ ILike(r.content, last.query) }
           Place(r) == Cardinality({ x \in qual : KeywordBefore(x, r) })
       IN Range(last.result) =
            { r \in qual :
                Place(r) < OrDefault(last.opts, "limit", DefaultRecallLimit) }
  /\ (last.op = "getMemories" /\ last.status = "ok") =>
       LET qual == { r \in OwnRows(last.self) :
                       /\ Has(last.opts, "userId") =>
                            r.user_id = last.opts.userId
                       /\ Has(last.opts, "category") =>
                            r.category = last.opts.category }
           Place(r) == Cardinality({ x \in qual :
                                       x.created_at > r.created_at })
           offset == OrDefault(last.opts, "offset", 0)
           limit == OrDefault(last.opts, "limit", DefaultGetMemoriesLimit)
       IN Range(last.result) =
            { r \in qual : offset <= Place(r) /\ Place(r) < offset + limit }

\* a keyword recall returns a memory whose expiry is past
C23_Witness ==
  /\ KeywordRecall
  /\ \E i \in 1..Len(last.result) : last.result[i].expires_at = "past"
  /\ \E i \in 1..Len(last.result) : last.result[i].expires_at = Null

====
